---- MODULE Spec2Model ----
(***************************************************************************)
(* Shirt Mockup Generator (src/mockup_generator.py).                       *)
(*                                                                         *)
(* Spec is the Streamlit rerun in which Generate is pressed, as a chain of *)
(* steps driven by pc: design naming, batch controls, live preview, the    *)
(* Generate guard, and the nested batch loop over selected_batch x         *)
(* shirt_files with its stages resize, skew, wrinkle warp, copy, blend and *)
(* archive write.  An exception that nothing catches ends the rerun in     *)
(* pc = "error".                                                           *)
(*                                                                         *)
(* SpecPlace starts one pair at line 207 and SpecBlend one pair at line    *)
(* 229, with the same steps, over wider sets of images and placements.     *)
(*                                                                         *)
(* A decoded image is its size (and, for a garment, the rectangle          *)
(* get_shirt_bbox finds in it); the objects the blend reads and writes are *)
(* held pixel by pixel in heap.  Resize, skew and warp are modelled by the *)
(* size of their result and, for the warp, by the garment region it reads; *)
(* their resampling is not.  Products that the source computes in floating *)
(* point are exact here, so int(...) truncates the exact value.            *)
(***************************************************************************)
EXTENDS Integers, Sequences, FiniteSets, TLC

VARIABLES
    \* widget values of the rerun (lines 18-34, 43-44, 58-62, 69-70, 184)
    design_files, shirt_files, typed_names, sliders, batch_start, batch_end,
    \* st.session_state.design_names (lines 39-40, 63)
    design_names,
    \* script position and outcome of the rerun
    pc, err, warned, download,
    \* module-level names bound by the script
    batch_defined, selected_batch, preview,
    \* batch loop (lines 188-236)
    di, si, graphic_name, zipf,
    \* per-pair locals (lines 193-230)
    design, shirt, bbox, scale, resized_design, x, y, warp, stages,
    \* image objects of the blend (lines 122-134, 229-230): id -> pixels
    heap, shirt_ref, design_ref, shirt_copy, blend_arg, arg_before, design_before

uiVars   == <<design_files, shirt_files, typed_names, sliders, batch_start, batch_end>>
runVars  == <<design_names, err, warned, download, batch_defined, selected_batch, preview>>
loopVars == <<di, si, graphic_name, zipf>>
pairVars == <<design, shirt, bbox, scale, resized_design, x, y, warp, stages>>
memVars  == <<heap, shirt_ref, design_ref, shirt_copy, blend_arg, arg_before, design_before>>
vars     == <<uiVars, runVars, loopVars, pairVars, memVars, pc>>

----------------------------------------------------------------------------
(* Bounds of the model *)

\* garment images are at most MaxGarment x MaxGarment pixels (placement specification)
MaxGarment == 4
\* graphics are at most MaxGraphic x MaxGraphic pixels (placement specification)
MaxGraphic == 3
\* garments are at most MaxShirtPx x MaxShirtPx pixels (blend specification)
MaxShirtPx == 3
\* warped designs are at most MaxDesignPx x MaxDesignPx pixels (blend specification)
MaxDesignPx == 2

----------------------------------------------------------------------------
(* Python / numpy arithmetic *)

Abs(n) == IF n < 0 THEN -n ELSE n

Min2(a, b) == IF a <= b THEN a ELSE b

Max2(a, b) == IF a >= b THEN a ELSE b

\* a // b of Python for b > 0: floor division
FloorDiv(a, b) == a \div b

\* int(a / b) of Python for b > 0, computed the way a floor-dividing port would
IntFloorBug(a, b) == a \div b

\* int(a / b) of Python for b > 0: truncation toward zero
IntTrunc(a, b) == IF a >= 0 THEN a \div b ELSE -((-a) \div b)

\* numpy's normalisation of one slice end against an axis of length n
SliceEnd(i, n) == IF i < 0 THEN Max2(i + n, 0) ELSE Min2(i, n)

\* rows (or columns) selected by a[start:stop] on an axis of length n:
\* <<first index, number of indices>>
Slice(start, stop, n) ==
    LET s == SliceEnd(start, n)
        e == SliceEnd(stop, n)
    IN  <<s, Max2(e - s, 0)>>

----------------------------------------------------------------------------
(* Decoded images (geometry) *)

None == <<>>

\* Image.open(f).convert("RGBA") of a decodable file: its size and, for a
\* garment, the rectangle cv2 will find in it
Decode(f) == [width |-> f.width, height |-> f.height, sil |-> f.sil]

\* get_shirt_bbox: boundingRect of the largest external contour, or None
get_shirt_bbox(pil_image) == pil_image.sil

\* min(sw / dw, sh / dh, 1.0) without the 1.0: a graphic smaller than the box is upscaled
FitScaleUncapped(sw, sh, dw, dh) ==
    IF sw * dh <= sh * dw THEN <<sw, dw>> ELSE <<sh, dh>>

\* min(sw / design.width, sh / design.height, 1.0) as a fraction <<num, den>>
FitScale(sw, sh, dw, dh) ==
    LET a == IF sw * dh <= sh * dw THEN <<sw, dw>> ELSE <<sh, dh>>
    IN  IF a[1] <= a[2] THEN a ELSE <<1, 1>>

\* scale = min(...) * padding_ratio, padding_ratio = pct / 100
PlacementScale(sw, sh, dw, dh, pct) ==
    LET f == FitScale(sw, sh, dw, dh) IN <<f[1] * pct, f[2] * 100>>

\* int(dim * scale)
ScaledDim(dim, sc) == IntTrunc(dim * sc[1], sc[2])

\* int(side * pct / 100)
OffsetPx(side, pct) == IntTrunc(side * pct, 100)

\* design.resize((w, h)): Pillow raises ValueError unless both are > 0
ResizeOk(w, h) == w >= 1 /\ h >= 1

\* apply_skew: an affine transform onto a canvas of the same size
apply_skew(image, skew_x_deg, skew_y_deg) == [width |-> image.width, height |-> image.height]

\* apply_displacement_map: the garment rows and columns gray[y:y+h, x:x+w]
\* selects, and whether the design is displaced by them or returned as is
apply_displacement_map(sh, dsg, px, py) ==
    LET h == dsg.height
        w == dsg.width
        rows == Slice(py, py + h, sh.height)
        cols == Slice(px, px + w, sh.width)
    IN  IF <<rows[2], cols[2]>> # <<h, w>>
        THEN [displaced |-> FALSE, row0 |-> 0, col0 |-> 0,
              width |-> w, height |-> h]
        ELSE [displaced |-> TRUE, row0 |-> rows[1], col0 |-> cols[1],
              width |-> w, height |-> h]

\* "model" in name.lower(), names being sequences of tokens
Lower(tok) == IF tok = "Model" THEN "model" ELSE tok

IsModel(name) == \E i \in 1..Len(name) : Lower(name[i]) = "model"

\* the five per-class sliders the pair uses (lines 200-205)
ConfigFor(name) == IF IsModel(name) THEN sliders.model ELSE sliders.plain

----------------------------------------------------------------------------
(* Pixel-level images: [width, height, px], px maps <<column, row>> to a     *)
(* pixel.  An RGBA pixel is <<c, a>>: one colour channel stands for the      *)
(* three, which the source treats alike, and a is alpha.  An RGB pixel is c. *)

Coords(w, h) == (0..(w - 1)) \X (0..(h - 1))

\* Image.crop(box): the box may leave the image; what lies outside is zero
Crop(img, x0, y0, x1, y1) ==
    [width |-> x1 - x0, height |-> y1 - y0,
     px |-> [p \in Coords(x1 - x0, y1 - y0) |->
                LET q == <<x0 + p[1], y0 + p[2]>>
                IN  IF q \in DOMAIN img.px THEN img.px[q] ELSE <<0, 0>>]]

\* Image.convert("RGB") of an RGBA image: alpha is dropped
ConvertRGB(img) ==
    [width |-> img.width, height |-> img.height,
     px |-> [p \in DOMAIN img.px |-> img.px[p][1]]]

\* ((a / 255) * (b / 255) * 255).astype(uint8), channel-wise
Multiply(a, b) ==
    [width |-> a.width, height |-> a.height,
     px |-> [p \in DOMAIN a.px |-> (a.px[p] * b.px[p]) \div 255]]

\* Pillow's DIV255 and BLEND of a masked paste
Div255(a) == (((a + 128) \div 256) + (a + 128)) \div 256

Blend8(m, old, new) == Div255(old * (255 - m) + new * m)

\* Image.paste(im, (x, y)) without the mask: the box is overwritten
PasteUnmasked(dst, src, px0, py0, mask) ==
    [width |-> dst.width, height |-> dst.height,
     px |-> [p \in DOMAIN dst.px |->
                LET q == <<p[1] - px0, p[2] - py0>>
                IN  IF q \in DOMAIN src.px THEN <<src.px[q], 255>> ELSE dst.px[p]]]

\* Image.paste(im, (x, y), mask) of an RGB image into an RGBA image: the source
\* is converted to RGBA (alpha 255), the box is clipped to the destination, and
\* every band is blended by the alpha band of the mask
Paste(dst, src, px0, py0, mask) ==
    [width |-> dst.width, height |-> dst.height,
     px |-> [p \in DOMAIN dst.px |->
                LET q == <<p[1] - px0, p[2] - py0>>
                IN  IF q \in DOMAIN src.px
                    THEN <<Blend8(mask.px[q][2], dst.px[p][1], src.px[q]),
                           Blend8(mask.px[q][2], dst.px[p][2], 255)>>
                    ELSE dst.px[p]]]

\* blend_design_with_shirt(shirt, design, x, y) on the object store h: the
\* object the shirt argument names is pasted into, and that same object is
\* returned
blend_design_with_shirt(h, shirt_arg, design_arg, px0, py0) ==
    LET sh == h[shirt_arg]
        dsg == h[design_arg]
        shirt_crop == ConvertRGB(Crop(sh, px0, py0, px0 + dsg.width, py0 + dsg.height))
        design_rgb == ConvertRGB(dsg)
        blended == Multiply(shirt_crop, design_rgb)
    IN  [heap |-> [h EXCEPT ![shirt_arg] = Paste(sh, blended, px0, py0, dsg)],
         result |-> shirt_arg]

\* pixel values the garments are painted with
GarmentPalette == << <<255, 255>>, <<128, 255>>, <<64, 128>> >>

\* pixel values the warped designs are painted with
DesignPalette == << <<255, 255>>, <<0, 255>>, <<128, 128>>, <<200, 0>>, <<128, 255>> >>

\* a w x h image painted with the palette, starting at entry seed
Painted(w, h, palette, seed) ==
    [width |-> w, height |-> h,
     px |-> [p \in Coords(w, h) |-> palette[((p[1] + p[2] * w + seed) % Len(palette)) + 1]]]

----------------------------------------------------------------------------
(* Widget values *)

\* slider defaults (lines 18-31); padding ratios are held in percent
DefaultPlain == [padding |-> 45, offset |-> 23, x_offset |-> 0, skew_x |-> 0, skew_y |-> 0]

DefaultModel == [padding |-> 45, offset |-> 38, x_offset |-> 0, skew_x |-> 0, skew_y |-> 0]

\* sampled positions of the padding slider (0.1 .. 1.0 step 0.05), in percent
PaddingPcts == {45, 100}

\* sampled positions of the vertical offset slider (-50 .. 100)
OffsetPcts == {-50, 0, 23, 100}

\* sampled positions of the horizontal offset slider (-50 .. 50)
XOffsetPcts == {-50, 0, 50}

PlainConfigs ==
    { [padding |-> p, offset |-> o, x_offset |-> xo, skew_x |-> 0, skew_y |-> 0] :
        p \in PaddingPcts, o \in OffsetPcts, xo \in XOffsetPcts }

\* rectangles cv2.boundingRect can return for a w x h image, or None
Silhouettes(w, h) ==
    {None} \cup
    { <<sx, sy, sw, sh>> : sx \in 0..(w - 1), sy \in 0..(h - 1), sw \in 1..w, sh \in 1..h }

BoxesIn(w, h) == { b \in Silhouettes(w, h) : b = None \/ (b[1] + b[3] <= w /\ b[2] + b[4] <= h) }

NoImage == [width |-> 0, height |-> 0]

NoShirt == [width |-> 0, height |-> 0, sil |-> None]

NoWarp == [displaced |-> FALSE, row0 |-> 0, col0 |-> 0, width |-> 0, height |-> 0]

\* Image.open(design_file).convert("RGBA")
OpenDesignImage(f) == [width |-> f.width, height |-> f.height]

----------------------------------------------------------------------------
(* One pair of the batch loop: lines 207-230 *)

\* lines 207-213 and 221-224: detect the silhouette, then scale and resize the
\* design, or fall back to centring the unscaled design in the whole garment
SolvePlacement ==
    /\ pc = "place"
    /\ stages' = Append(stages, "placement")
    /\ LET b == get_shirt_bbox(shirt)
           cfg == ConfigFor(shirt_files[si].name)
       IN  IF b # None
           THEN LET sc == PlacementScale(b[3], b[4], design.width, design.height, cfg.padding)
                    new_width == ScaledDim(design.width, sc)
                    new_height == ScaledDim(design.height, sc)
                IN  /\ bbox' = b
                    /\ scale' = sc
                    /\ IF ResizeOk(new_width, new_height)
                       THEN /\ resized_design' = [width |-> new_width, height |-> new_height]
                            /\ pc' = "skew"
                            /\ err' = err
                       ELSE /\ resized_design' = resized_design
                            /\ pc' = "error"
                            /\ err' = "ValueError"
                    /\ UNCHANGED <<x, y>>
           ELSE /\ bbox' = None
                /\ resized_design' = design
                /\ x' = FloorDiv(shirt.width - design.width, 2)
                /\ y' = FloorDiv(shirt.height - design.height, 2)
                /\ pc' = "warp"
                /\ UNCHANGED <<scale, err>>
    /\ UNCHANGED <<uiVars, loopVars, memVars, design, shirt, warp>>
    /\ UNCHANGED <<design_names, warned, download, batch_defined, selected_batch, preview>>

\* lines 215-220: skew the resized design, then place it in the box
SkewStep ==
    /\ pc = "skew"
    /\ stages' = Append(stages, "skew")
    /\ LET cfg == ConfigFor(shirt_files[si].name)
           new_width == resized_design.width
           y_offset == OffsetPx(bbox[4], cfg.offset)
           x_offset == OffsetPx(bbox[3], cfg.x_offset)
       IN  /\ resized_design' = apply_skew(resized_design, cfg.skew_x, cfg.skew_y)
           /\ x' = bbox[1] + FloorDiv(bbox[3] - new_width, 2) + x_offset
           /\ y' = bbox[2] + y_offset
    /\ pc' = "warp"
    /\ UNCHANGED <<uiVars, runVars, loopVars, memVars, design, shirt, bbox, scale, warp>>

\* line 227: warped_design = apply_displacement_map(shirt, resized_design, x, y, ...)
WarpStep ==
    /\ pc = "warp"
    /\ stages' = Append(stages, "warp")
    /\ warp' = apply_displacement_map(shirt, resized_design, x, y)
    /\ heap' = << heap[shirt_ref],
                  Painted(warp'.width, warp'.height, DesignPalette, selected_batch[di].seed) >>
    /\ design_ref' = 2
    /\ pc' = "copy"
    /\ UNCHANGED <<uiVars, runVars, loopVars>>
    /\ UNCHANGED <<design, shirt, bbox, scale, resized_design, x, y>>
    /\ UNCHANGED <<shirt_ref, shirt_copy, blend_arg, arg_before, design_before>>

----------------------------------------------------------------------------
(* Placement specification: one decoded pair at line 207, over all small     *)
(* garments, silhouettes, graphics and slider positions                      *)

InitPlace ==
    \E gw \in 1..MaxGarment, gh \in 1..MaxGarment, dw \in 1..MaxGraphic, dh \in 1..MaxGraphic :
    \E b \in BoxesIn(gw, gh), cfg \in PlainConfigs :
        /\ design_files = << [name |-> <<"a", ".png">>, ok |-> TRUE, width |-> dw, height |-> dh, seed |-> 0] >>
        /\ shirt_files = << [name |-> <<"white", ".png">>, ok |-> TRUE,
                             width |-> gw, height |-> gh, sil |-> b, seed |-> 0] >>
        /\ typed_names = << <<"a">> >>
        /\ sliders = [plain |-> cfg, model |-> DefaultModel]
        /\ batch_start = 1
        /\ batch_end = 1
        /\ design_names = [n \in { <<"a", ".png">> } |-> <<"a">>]
        /\ err = "" /\ warned = FALSE /\ download = FALSE
        /\ batch_defined = TRUE
        /\ selected_batch = design_files
        /\ preview = "none"
        /\ di = 1 /\ si = 1
        /\ graphic_name = <<"a">>
        /\ zipf = <<>>
        /\ design = OpenDesignImage(design_files[1])
        /\ shirt = Decode(shirt_files[1])
        /\ bbox = None
        /\ scale = <<0, 1>>
        /\ resized_design = NoImage
        /\ x = 0 /\ y = 0
        /\ warp = NoWarp
        /\ stages = <<>>
        /\ pc = "place"
        /\ heap = << Painted(gw, gh, GarmentPalette, 0) >>
        /\ shirt_ref = 1
        /\ design_ref = 0
        /\ shirt_copy = 0
        /\ blend_arg = 0
        /\ arg_before = <<>>
        /\ design_before = <<>>

NextPlace == SolvePlacement \/ SkewStep \/ WarpStep

SpecPlace == InitPlace /\ [][NextPlace]_vars

----------------------------------------------------------------------------
(* Properties of the placement and of the wrinkle warp (SpecPlace) *)

\* the padding slider, in percent, that applies to the current garment
PaddingPct == ConfigFor(shirt_files[si].name).padding

\* the design has been resized against a detected box
Resized == bbox # None /\ pc \in {"skew", "warp", "copy"}

\* the design has been placed against a detected box
Placed == bbox # None /\ pc \in {"warp", "copy"}

\* C3: with a detected box, the scale factor is at most the padding ratio and
\* at most 1, and the resized design is no wider or taller than the original
\* design and than paddingRatio times the box.
C3_ScaleWithinPadding ==
    /\ (bbox # None /\ pc \in {"skew", "warp", "copy", "error"}) =>
          /\ scale[1] * 100 <= PaddingPct * scale[2]
          /\ scale[1] <= scale[2]
    /\ Resized =>
          /\ resized_design.width <= design.width
          /\ resized_design.height <= design.height
          /\ 100 * resized_design.width <= PaddingPct * bbox[3]
          /\ 100 * resized_design.height <= PaddingPct * bbox[4]

\* a box larger than the graphic at padding 1.0: only the 1.0 cap keeps the size
C3_Witness ==
    /\ Resized
    /\ bbox[3] > design.width
    /\ bbox[4] > design.height
    /\ PaddingPct = 100
    /\ resized_design.width = design.width

\* round(a / b) of Python for b > 0: nearest integer, ties to even
Round(a, b) ==
    LET q == a \div b
        r == a - q * b
    IN  IF 2 * r < b THEN q
        ELSE IF 2 * r > b THEN q + 1
        ELSE IF q % 2 = 0 THEN q ELSE q + 1

\* t is a / b truncated toward zero (b > 0)
IsTruncation(t, a, b) ==
    /\ Abs(t) * b <= Abs(a)
    /\ Abs(a) < (Abs(t) + 1) * b
    /\ t * a >= 0

\* c is (wide - narrow) / 2 rounded down
IsCentred(c, wide, narrow) == 2 * c <= wide - narrow /\ wide - narrow <= 2 * c + 1

\* C4: sizes and offsets are rounded to the nearest integer (round), for every
\* signed offset percentage.
C4_Rounded ==
    Placed =>
        LET cfg == ConfigFor(shirt_files[si].name)
        IN  /\ resized_design.width = Round(design.width * scale[1], scale[2])
            /\ resized_design.height = Round(design.height * scale[1], scale[2])
            /\ \E c \in 0..bbox[3] :
                  /\ IsCentred(c, bbox[3], resized_design.width)
                  /\ x = bbox[1] + c + Round(bbox[3] * cfg.x_offset, 100)
            /\ y = bbox[2] + Round(bbox[4] * cfg.offset, 100)

\* C4 amended: whenever a placement is produced for a detected box, sizes and
\* offsets are truncated toward zero: scaled dimensions = trunc(graphicSize *
\* scale), x = box.x + floor((box.width - scaledWidth) / 2) + trunc(box.width *
\* horizontalOffsetPct / 100), y = box.y + trunc(box.height * verticalOffsetPct
\* / 100), for every signed offset percentage.
C4_Truncated ==
    Placed =>
        LET cfg == ConfigFor(shirt_files[si].name)
        IN  /\ IsTruncation(resized_design.width, design.width * scale[1], scale[2])
            /\ IsTruncation(resized_design.height, design.height * scale[1], scale[2])
            /\ \E c \in 0..bbox[3], t \in (-bbox[3])..bbox[3] :
                  /\ IsCentred(c, bbox[3], resized_design.width)
                  /\ IsTruncation(t, bbox[3] * cfg.x_offset, 100)
                  /\ x = bbox[1] + c + t
            /\ \E t \in (-bbox[4])..bbox[4] :
                  /\ IsTruncation(t, bbox[4] * cfg.offset, 100)
                  /\ y = bbox[2] + t

\* negative offsets in both axes that are not whole pixels, and a scaled width
\* that is not a whole pixel either
C4_Witness ==
    /\ Placed
    /\ LET cfg == ConfigFor(shirt_files[si].name)
       IN  /\ cfg.offset < 0 /\ (bbox[4] * cfg.offset) % 100 # 0
           /\ cfg.x_offset < 0 /\ (bbox[3] * cfg.x_offset) % 100 # 0
           /\ (design.width * scale[1]) % scale[2] # 0
           /\ y < bbox[2]

\* the footprint [y, y+h) x [x, x+w) of the placed design lies inside the garment
FootprintInside ==
    /\ x >= 0 /\ y >= 0
    /\ x + resized_design.width <= shirt.width
    /\ y + resized_design.height <= shirt.height

\* C5: if the footprint is not entirely inside the garment the warp returns the
\* design unchanged, and a displacement is only ever taken from the garment rows
\* and columns of exactly the footprint.
C5_WarpOnlyFromFootprint ==
    pc = "copy" =>
        /\ ~FootprintInside => ~warp.displaced
        /\ warp.displaced => (warp.row0 = y /\ warp.col0 = x)

----------------------------------------------------------------------------
(* The composite of one pair: lines 229-230 *)

\* line 229: shirt_copy = shirt.copy(), a new object with the same pixels
CopyShirt ==
    /\ pc = "copy"
    /\ LET new_ref == Len(heap) + 1
       IN  /\ heap' = Append(heap, heap[shirt_ref])
           /\ shirt_copy' = new_ref
    /\ pc' = "blend_call"
    /\ UNCHANGED <<uiVars, runVars, loopVars, pairVars>>
    /\ UNCHANGED <<shirt_ref, design_ref, blend_arg, arg_before, design_before>>

\* line 230: shirt_copy = blend_design_with_shirt(shirt_copy, warped_design, x, y)
CallBlend ==
    /\ pc = "blend_call"
    /\ LET r == blend_design_with_shirt(heap, shirt_copy, design_ref, x, y)
       IN  /\ heap' = r.heap
           /\ shirt_copy' = r.result
    /\ blend_arg' = shirt_copy
    /\ arg_before' = heap[shirt_copy]
    /\ design_before' = heap[design_ref]
    /\ stages' = Append(stages, "blend")
    /\ pc' = "write"
    /\ UNCHANGED <<uiVars, runVars, loopVars, shirt_ref, design_ref>>
    /\ UNCHANGED <<design, shirt, bbox, scale, resized_design, x, y, warp>>

----------------------------------------------------------------------------
(* Blend specification: one pair at line 229, over small garments, warped    *)
(* designs and placements                                                    *)

InitBlend ==
    \E gw \in 1..MaxShirtPx, gh \in 1..MaxShirtPx, dw \in 1..MaxDesignPx, dh \in 1..MaxDesignPx :
    \E gs \in 0..(Len(GarmentPalette) - 1), ds \in 0..(Len(DesignPalette) - 1) :
    \E px0 \in (-MaxDesignPx)..MaxShirtPx, py0 \in (-MaxDesignPx)..MaxShirtPx :
        /\ heap = << Painted(gw, gh, GarmentPalette, gs), Painted(dw, dh, DesignPalette, ds) >>
        /\ shirt_ref = 1
        /\ design_ref = 2
        /\ shirt_copy = 0
        /\ blend_arg = 0
        /\ arg_before = <<>>
        /\ design_before = <<>>
        /\ x = px0 /\ y = py0
        /\ design_files = << [name |-> <<"a", ".png">>, ok |-> TRUE, width |-> dw, height |-> dh, seed |-> 0] >>
        /\ shirt_files = << [name |-> <<"white", ".png">>, ok |-> TRUE,
                             width |-> gw, height |-> gh, sil |-> None, seed |-> 0] >>
        /\ typed_names = << <<"a">> >>
        /\ sliders = [plain |-> DefaultPlain, model |-> DefaultModel]
        /\ batch_start = 1
        /\ batch_end = 1
        /\ design_names = [n \in { <<"a", ".png">> } |-> <<"a">>]
        /\ err = "" /\ warned = FALSE /\ download = FALSE
        /\ batch_defined = TRUE
        /\ selected_batch = design_files
        /\ preview = "none"
        /\ di = 1 /\ si = 1
        /\ graphic_name = <<"a">>
        /\ zipf = <<>>
        /\ design = NoImage
        /\ shirt = [width |-> gw, height |-> gh, sil |-> None]
        /\ bbox = None
        /\ scale = <<0, 1>>
        /\ resized_design = [width |-> dw, height |-> dh]
        /\ warp = [displaced |-> FALSE, row0 |-> 0, col0 |-> 0, width |-> dw, height |-> dh]
        /\ stages = <<"placement", "warp">>
        /\ pc = "copy"

NextBlend == CopyShirt \/ CallBlend

SpecBlend == InitBlend /\ [][NextBlend]_vars

\* the pixel of the pasted design that lands on garment pixel p, if any
OnDesign(p) == <<p[1] - x, p[2] - y>>

\* C6: the composite returns an image of the garment's dimensions in which every
\* pixel outside the design's footprint, and every pixel inside it where the
\* design's alpha is 0, equals the garment's original pixel, for every
\* placement, overflowing ones included.
C6_GarmentKeptOutsideInk ==
    pc = "write" =>
        LET res == heap[shirt_copy]
            dsg == design_before
        IN  /\ err = ""
            /\ res.width = arg_before.width
            /\ res.height = arg_before.height
            /\ DOMAIN res.px = DOMAIN arg_before.px
            /\ \A p \in DOMAIN arg_before.px :
                  (OnDesign(p) \notin DOMAIN dsg.px \/ dsg.px[OnDesign(p)][2] = 0)
                      => res.px[p] = arg_before.px[p]

\* a design that overflows the right or bottom edge, with a transparent pixel on
\* the garment left as it was and an inked pixel on the garment changed
C6_Witness ==
    /\ pc = "write"
    /\ (x + design_before.width > arg_before.width \/ y + design_before.height > arg_before.height)
    /\ \E p \in DOMAIN arg_before.px :
          /\ OnDesign(p) \in DOMAIN design_before.px
          /\ design_before.px[OnDesign(p)][2] = 0
          /\ design_before.px[OnDesign(p)][1] # arg_before.px[p][1]
    /\ \E p \in DOMAIN arg_before.px : heap[shirt_copy].px[p] # arg_before.px[p]

\* C7: after blend_design_with_shirt returns, the garment and the design passed
\* in hold the pixels they held before the call, and the result is another object.
C7_BlendLeavesArgumentsAlone ==
    pc = "write" =>
        /\ heap[blend_arg] = arg_before
        /\ heap[design_ref] = design_before
        /\ shirt_copy # blend_arg

----------------------------------------------------------------------------
(* The script rerun in which Generate is pressed: lines 36-244 *)

\* at most MaxDesigns design files are uploaded
MaxDesigns == 2
\* at most MaxShirts shirt templates are uploaded
MaxShirts == 2

\* design files the user can pick; the third comes from another folder and
\* has the file name of the first; the last is not an image
DesignCatalog ==
    { [name |-> <<"a", ".png">>, ok |-> TRUE, width |-> 3, height |-> 3, seed |-> 0],
      [name |-> <<"b", ".png">>, ok |-> TRUE, width |-> 1, height |-> 1, seed |-> 1],
      [name |-> <<"a", ".png">>, ok |-> TRUE, width |-> 2, height |-> 3, seed |-> 2],
      [name |-> <<"bad", ".png">>, ok |-> FALSE, width |-> 0, height |-> 0, seed |-> 0] }

\* shirt templates the user can pick: a plain shirt, a model shot, a blank
\* white photograph in which no contour is found, and a file that is not an image
ShirtCatalog ==
    { [name |-> <<"white", ".png">>, ok |-> TRUE, width |-> 4, height |-> 4,
       sil |-> <<0, 0, 4, 4>>, seed |-> 0],
      [name |-> <<"Model", ".png">>, ok |-> TRUE, width |-> 4, height |-> 4,
       sil |-> <<1, 0, 3, 4>>, seed |-> 1],
      [name |-> <<"blank", ".png">>, ok |-> TRUE, width |-> 3, height |-> 3,
       sil |-> None, seed |-> 0],
      [name |-> <<"torn", ".jpg">>, ok |-> FALSE, width |-> 0, height |-> 0,
       sil |-> None, seed |-> 0] }

\* names the user can type over a default
CustomNames == { <<"logo">> }

\* upload lists: up to n distinct files of the catalog, in any order
Uploads(catalog, n) ==
    UNION { { f \in [1..k -> catalog] : \A i, j \in 1..k : i # j => f[i] # f[j] } : k \in 0..n }

\* slider positions of the reruns
BatchConfigs == { c \in PlainConfigs : c.x_offset = 0 /\ c.offset \in {-50, 23} }

Extensions == {".png", ".jpg", ".jpeg"}

\* os.path.splitext(name)[0]
Splitext(name) ==
    IF Len(name) > 1 /\ name[Len(name)] \in Extensions
    THEN SubSeq(name, 1, Len(name) - 1)
    ELSE name

\* dict.get(key, default)
Get(dict, key, default) == IF key \in DOMAIN dict THEN dict[key] ELSE default

\* the dict after dict[key] = value
Put(dict, key, value) ==
    [k \in DOMAIN dict \cup {key} |-> IF k = key THEN value ELSE dict[k]]

\* design_names after the naming loop has stored the first n text inputs
RECURSIVE NamesAfter(_)
NamesAfter(n) ==
    IF n = 0 THEN design_names
    ELSE Put(NamesAfter(n - 1), design_files[n].name, typed_names[n])

\* f"{graphic_name}_{color_name}_tee.png"
OutputName(graphic, color) == graphic \o <<"_">> \o color \o <<"_tee.png">>

Init ==
    /\ design_files \in Uploads(DesignCatalog, MaxDesigns)
    /\ shirt_files \in Uploads(ShirtCatalog, MaxShirts)
    /\ typed_names \in [1..Len(design_files) -> CustomNames \cup { Splitext(f.name) : f \in DesignCatalog }]
    /\ \A i \in 1..Len(design_files) :
          typed_names[i] \in CustomNames \cup { Splitext(design_files[i].name) }
    /\ \E cfg \in BatchConfigs : sliders = [plain |-> cfg, model |-> DefaultModel]
    /\ batch_start \in 0..Len(design_files)
    /\ batch_end \in 0..Len(design_files)
    /\ IF design_files = <<>>
       THEN batch_start = 0 /\ batch_end = 0
       ELSE 1 <= batch_start /\ batch_start <= batch_end
    /\ design_names = <<>>
    /\ err = "" /\ warned = FALSE /\ download = FALSE
    /\ batch_defined = FALSE
    /\ selected_batch = <<>>
    /\ preview = "none"
    /\ di = 0 /\ si = 0
    /\ graphic_name = <<>>
    /\ zipf = <<>>
    /\ design = NoImage
    /\ shirt = NoShirt
    /\ bbox = None
    /\ scale = <<0, 1>>
    /\ resized_design = NoImage
    /\ x = 0 /\ y = 0
    /\ warp = NoWarp
    /\ stages = <<>>
    /\ heap = <<>>
    /\ shirt_ref = 0 /\ design_ref = 0 /\ shirt_copy = 0 /\ blend_arg = 0
    /\ arg_before = <<>>
    /\ design_before = <<>>
    /\ pc = "naming"

\* lines 54-63: every text input is stored under its file's name
NameDesigns ==
    /\ pc = "naming"
    /\ design_names' = NamesAfter(Len(design_files))
    /\ pc' = "batch_controls"
    /\ UNCHANGED <<uiVars, loopVars, pairVars, memVars>>
    /\ UNCHANGED <<err, warned, download, batch_defined, selected_batch, preview>>

\* lines 65-71: selected_batch is bound only when designs are uploaded
BatchControls ==
    /\ pc = "batch_controls"
    /\ IF design_files # <<>>
       THEN /\ batch_defined' = TRUE
            /\ selected_batch' = SubSeq(design_files, batch_start, batch_end)
       ELSE UNCHANGED <<batch_defined, selected_batch>>
    /\ pc' = "preview"
    /\ UNCHANGED <<uiVars, loopVars, pairVars, memVars>>
    /\ UNCHANGED <<design_names, err, warned, download, preview>>

\* the preview of lines 142-179 raises: a file does not decode, or the resize
\* gets an empty size
PreviewRaises(design_file, shirt_file) ==
    \/ ~design_file.ok
    \/ ~shirt_file.ok
    \/ LET d == OpenDesignImage(design_file)
           b == get_shirt_bbox(Decode(shirt_file))
           sc == PlacementScale(b[3], b[4], d.width, d.height, ConfigFor(shirt_file.name).padding)
       IN  b # None /\ ~ResizeOk(ScaledDim(d.width, sc), ScaledDim(d.height, sc))

\* lines 137-181: preview of the first design on the first shirt; whatever it
\* raises is caught and shown
LivePreview ==
    /\ pc = "preview"
    /\ preview' = IF design_files = <<>> \/ shirt_files = <<>> THEN "none"
                  ELSE IF PreviewRaises(design_files[1], shirt_files[1]) THEN "failed"
                  ELSE "shown"
    /\ pc' = "generate"
    /\ UNCHANGED <<uiVars, loopVars, pairVars, memVars>>
    /\ UNCHANGED <<design_names, err, warned, download, batch_defined, selected_batch>>

\* lines 184-189: the guard reads selected_batch, bound or not
GenerateGuard ==
    /\ pc = "generate"
    /\ IF ~batch_defined
       THEN /\ pc' = "error"
            /\ err' = "NameError"
            /\ UNCHANGED <<warned, di, zipf>>
       ELSE IF selected_batch = <<>> \/ shirt_files = <<>>
       THEN /\ warned' = TRUE
            /\ pc' = "done"
            /\ UNCHANGED <<err, di, zipf>>
       ELSE /\ zipf' = <<>>
            /\ di' = 1
            /\ pc' = "open_design"
            /\ UNCHANGED <<err, warned>>
    /\ UNCHANGED <<uiVars, pairVars, memVars, si, graphic_name>>
    /\ UNCHANGED <<design_names, download, batch_defined, selected_batch, preview>>

\* lines 190-193: next design of the batch, or the end of the outer loop
OpenDesign ==
    /\ pc = "open_design"
    /\ IF di > Len(selected_batch)
       THEN /\ pc' = "finish"
            /\ UNCHANGED <<graphic_name, design, si, err>>
       ELSE /\ graphic_name' = Get(design_names, selected_batch[di].name, <<"graphic">>)
            /\ IF selected_batch[di].ok
               THEN /\ design' = OpenDesignImage(selected_batch[di])
                    /\ si' = 1
                    /\ pc' = "open_shirt"
                    /\ err' = err
               ELSE /\ pc' = "error"
                    /\ err' = "UnidentifiedImageError"
                    /\ UNCHANGED <<design, si>>
    /\ UNCHANGED <<uiVars, memVars, di, zipf>>
    /\ UNCHANGED <<shirt, bbox, scale, resized_design, x, y, warp, stages>>
    /\ UNCHANGED <<design_names, warned, download, batch_defined, selected_batch, preview>>

\* lines 195-198: next shirt for this design, or the end of the inner loop
OpenShirt ==
    /\ pc = "open_shirt"
    /\ IF si > Len(shirt_files)
       THEN /\ di' = di + 1
            /\ pc' = "open_design"
            /\ UNCHANGED <<shirt, stages, heap, shirt_ref, err>>
       ELSE /\ di' = di
            /\ IF shirt_files[si].ok
               THEN /\ shirt' = Decode(shirt_files[si])
                    /\ heap' = << Painted(shirt_files[si].width, shirt_files[si].height,
                                          GarmentPalette, shirt_files[si].seed) >>
                    /\ shirt_ref' = 1
                    /\ stages' = <<>>
                    /\ pc' = "place"
                    /\ err' = err
               ELSE /\ pc' = "error"
                    /\ err' = "UnidentifiedImageError"
                    /\ UNCHANGED <<shirt, stages, heap, shirt_ref>>
    /\ UNCHANGED <<uiVars, si, graphic_name, zipf>>
    /\ UNCHANGED <<design, bbox, scale, resized_design, x, y, warp>>
    /\ UNCHANGED <<design_ref, shirt_copy, blend_arg, arg_before, design_before>>
    /\ UNCHANGED <<design_names, warned, download, batch_defined, selected_batch, preview>>

\* lines 232-236: the composite is written to the archive under output_name
WriteEntry ==
    /\ pc = "write"
    /\ LET color_name == Splitext(shirt_files[si].name)
           output_name == OutputName(graphic_name, color_name)
       IN  zipf' = Append(zipf, [name |-> output_name,
                                 graphic |-> batch_start + di - 1,
                                 garment |-> si,
                                 data |-> heap[shirt_copy]])
    /\ si' = si + 1
    /\ pc' = "open_shirt"
    /\ UNCHANGED <<uiVars, runVars, pairVars, memVars, di, graphic_name>>

\* lines 238-244: the archive is offered for download
Finish ==
    /\ pc = "finish"
    /\ download' = TRUE
    /\ pc' = "done"
    /\ UNCHANGED <<uiVars, loopVars, pairVars, memVars>>
    /\ UNCHANGED <<design_names, err, warned, batch_defined, selected_batch, preview>>

Next ==
    \/ NameDesigns
    \/ BatchControls
    \/ LivePreview
    \/ GenerateGuard
    \/ OpenDesign
    \/ OpenShirt
    \/ SolvePlacement
    \/ SkewStep
    \/ WarpStep
    \/ CopyShirt
    \/ CallBlend
    \/ WriteEntry
    \/ Finish

Spec == Init /\ [][Next]_vars

----------------------------------------------------------------------------
(* Properties of the batch run (Spec) *)

\* the rerun is over: the script ran to its end, or an exception ended it
Ended == pc \in {"done", "error"}

\* the Generate branch had a batch and shirt templates to work on
BatchRan == batch_defined /\ selected_batch # <<>> /\ shirt_files # <<>>

Decodes(g, s) == selected_batch[g].ok /\ shirt_files[s].ok

\* the archive holds an entry for graphic g of the batch on garment s
Emitted(g, s) ==
    \E k \in 1..Len(zipf) : zipf[k].graphic = batch_start + g - 1 /\ zipf[k].garment = s

\* C1: when every uploaded file decodes, the run emits exactly G * S results,
\* one per pair, graphic-major and garment-minor in the input order.
C1_AllPairsInOrder ==
    (/\ Ended
     /\ BatchRan
     /\ \A g \in 1..Len(selected_batch), s \in 1..Len(shirt_files) : Decodes(g, s))
    => LET S == Len(shirt_files)
       IN  /\ Len(zipf) = Len(selected_batch) * S
           /\ \A k \in 1..Len(zipf) :
                 /\ zipf[k].graphic = batch_start + ((k - 1) \div S)
                 /\ zipf[k].garment = ((k - 1) % S) + 1

\* C2: a file that does not decode does not abort the batch: the run ends
\* without a thrown decode error and every pair whose two files decode is emitted.
C2_DecodeFailureSkipsPair ==
    (Ended /\ BatchRan) =>
        /\ err # "UnidentifiedImageError"
        /\ err = "" =>
              \A g \in 1..Len(selected_batch), s \in 1..Len(shirt_files) :
                  Decodes(g, s) => Emitted(g, s)

\* C8: when a pair's result is about to be emitted, placement, skew, wrinkle
\* warp and blend have each run exactly once, in that order, silhouette or not.
C8_StagesInFixedOrder ==
    pc = "write" => stages = <<"placement", "skew", "warp", "blend">>

\* C9: the archive holds one entry per processed pair, named
\* {graphicName}_{garmentName}_tee.png, and distinct pairs have distinct names.
C9_DistinctEntryNames ==
    \A i, j \in 1..Len(zipf) :
        /\ zipf[i].name[Len(zipf[i].name)] = "_tee.png"
        /\ i # j => <<zipf[i].graphic, zipf[i].garment>> # <<zipf[j].graphic, zipf[j].garment>>
        /\ i # j => zipf[i].name # zipf[j].name

\* C10: Generate with no design or no shirt template ends with the warning,
\* processes no pair, offers no archive and never reaches an error.
C10_EmptyUploadOnlyWarns ==
    (design_files = <<>> \/ shirt_files = <<>>) =>
        /\ pc # "error"
        /\ err = ""
        /\ zipf = <<>>
        /\ ~download
        /\ pc = "done" => warned

====
